---- MODULE Spec2Model ----
(***************************************************************************)
(* State-machine model of backend/app.py: the Flask handlers, the model    *)
(* loader thread and the cleanup thread, at the granularity of the Python  *)
(* statements that touch shared state (conversation_store, the turn lists  *)
(* it refers to, audio_file_store, the files of Config.TEMP_DIR, the       *)
(* models dictionary and the models_loaded event).                         *)
(***************************************************************************)
EXTENDS Integers, Sequences, FiniteSets, TLC

\* ------------------------------------------------------------------ bounds
MaxReq == 2          \* request-handling threads that can be in flight at once
MaxStarts == 2       \* requests received over a behaviour
MaxSeqStarts == 3    \* requests received over a behaviour of SpecTurns
MaxTicks == 2        \* clock advances over a behaviour
MaxOob == 1          \* files removed from TEMP_DIR by something other than the program
MaxFailures == 1     \* os.unlink calls of the cleanup thread that raise over a behaviour
MaxErrors == 1       \* cleanup cycles that end in the outer except over a behaviour

\* ------------------------------------------------------- program constants
AUDIO_RETENTION_SECONDS == 3600
CleanupSleep == 300
CleanupErrorSleep == 60

Fallback == "I'm not sure how to respond to that."

\* --------------------------------------------------------- input alphabets
Reqs == 1..MaxReq
NoId == 0                      \* the empty string as conversation_id / no file name
ClientIds == {1}               \* an identifier a client makes up
UuidBase == 10                 \* uuid4() values are UuidBase + 1, UuidBase + 2, ...
Msgs == {"hi", "again"}        \* non-empty texts
Replies == {"ok"}              \* texts the dialog engine generates
TickSteps == {1, 3600}         \* seconds the clock can advance by in one step
NoObj == 0                     \* no list object

GatedEndpoints ==
    {"chat", "speech_to_text", "text_to_speech", "conversation_with_audio",
     "language_feedback"}

VARIABLES
    models_loaded,        \* threading.Event
    models,               \* keys of the models dict
    loader,               \* position of the load_models thread
    conversation_store,   \* conversation id -> reference to a list object (NoObj: no key)
    lists,                \* the list objects allocated so far: reference -> sequence of turns
    audio_file_store,     \* dict in insertion order: sequence of [name, path, timestamp, type]
    files,                \* paths that exist in Config.TEMP_DIR
    now,                  \* time.time()
    ticks,                \* clock advances so far
    reaper,               \* state of the cleanup_old_files thread
    req,                  \* request threads: locals and position of each handler
    nextUuid,             \* uuid4() values drawn so far
    nextTmp,              \* NamedTemporaryFile names drawn so far
    nreq,                 \* requests received so far
    log,                  \* history: per conversation id, the (text, response) pairs of the
                          \* dialog turns that completed since the id was last created
    deleted,              \* history: [cid, obj] of every key delete_conversation removed
                          \* and the list object the key referred to
    oob,                  \* history: paths removed out of band
    registered,           \* history: [name, timestamp] of every audio_file_store entry made
    removed,              \* history: [name, at] of every entry or file the cleanup removed
    swept                 \* history: names expired in the snapshot of a completed cleanup
                          \* cycle in which no removal failed

vars ==
    <<models_loaded, models, loader, conversation_store, lists, audio_file_store,
      files, now, ticks, reaper, req, nextUuid, nextTmp, nreq, log, deleted,
      oob, registered, removed, swept>>

sessionVars == <<conversation_store, lists, log, deleted>>
audioVars == <<audio_file_store, files, registered>>
loaderVars == <<models_loaded, models, loader>>
clockVars == <<now, ticks>>
reaperVars == <<reaper, removed, swept>>
counterVars == <<nextUuid, nextTmp>>

\* ----------------------------------------------------------------- helpers
SessionIds == ClientIds \cup ((UuidBase + 1)..(UuidBase + 2 * (MaxStarts + MaxSeqStarts)))

WavPath(name) == <<"chatbot_audio", "wav", name>>    \* Config.TEMP_DIR / filename
TmpPath(k) == <<"chatbot_audio", "tmp", k>>          \* NamedTemporaryFile(dir=TEMP_DIR)

Uuid4 == UuidBase + nextUuid + 1

InStore(name) == \E i \in 1..Len(audio_file_store) : audio_file_store[i].name = name

Entry(name) ==
    audio_file_store[CHOOSE i \in 1..Len(audio_file_store) : audio_file_store[i].name = name]

RECURSIVE Without(_, _)
Without(s, name) ==
    IF s = <<>> THEN <<>>
    ELSE IF Head(s).name = name THEN Without(Tail(s), name)
    ELSE <<Head(s)>> \o Without(Tail(s), name)

IdleReq ==
    [ep |-> "none", pc |-> "idle", msg |-> "", cid |-> NoId, audio |-> FALSE,
     history |-> NoObj, convo |-> <<>>, response |-> "", temp |-> 0, filename |-> NoId,
     path |-> <<>>, status |-> 0, calls |-> <<>>, result |-> <<>>, rid |-> 0,
     early |-> FALSE, work |-> FALSE, failed |-> "", flag |-> FALSE,
     known |-> FALSE, asked |-> NoId, found |-> "", empty |-> FALSE]

\* jsonify(...), status: the handler returns
Return(rec, code) == [rec EXCEPT !.pc = "done", !.status = code]

\* api_response (lines 119-127): an exception raised by the handler becomes a 500
Raise(rec, stage) == [rec EXCEPT !.pc = "done", !.status = 500, !.failed = stage]


\* ------------------------------------------------------------------- Init
Init ==
    /\ models_loaded = FALSE
    /\ models = {}
    /\ loader = "chatbot"
    /\ conversation_store = [c \in SessionIds |-> NoObj]
    /\ lists = <<>>
    /\ audio_file_store = <<>>
    /\ files = {}
    /\ now = 0
    /\ ticks = 0
    /\ reaper = [pc |-> "scan", current_time |-> 0, snapshot |-> <<>>, i |-> 1,
                 wakeAt |-> 0, clean |-> TRUE, failed |-> {}, errored |-> FALSE,
                 failures |-> 0, errors |-> 0]
    /\ req = [r \in Reqs |-> IdleReq]
    /\ nextUuid = 0
    /\ nextTmp = 0
    /\ nreq = 0
    /\ log = [c \in SessionIds |-> <<>>]
    /\ deleted = {}
    /\ oob = {}
    /\ registered = {}
    /\ removed = {}
    /\ swept = {}

\* ------------------------------------------------------------ load_models
\* lines 57-72: one pipeline(...) call; it raises (line 78 re-raises, the thread ends)
\* or registers the engine under its key
NextToLoad(name) ==
    IF name = "chatbot" THEN "asr" ELSE IF name = "asr" THEN "narrator" ELSE "set"

\* variant of LoadModel that goes on to the next engine when pipeline(...) raises
LoadModelLenient ==
    /\ loader \in {"chatbot", "asr", "narrator"}
    /\ \/ /\ models' = models \cup {loader}
          /\ loader' = NextToLoad(loader)
       \/ /\ loader' = NextToLoad(loader)
          /\ UNCHANGED models
    /\ UNCHANGED <<models_loaded, sessionVars, audioVars, clockVars, reaperVars, req,
                   counterVars, nreq, oob>>

LoadModel ==
    /\ loader \in {"chatbot", "asr", "narrator"}
    /\ \/ /\ models' = models \cup {loader}
          /\ loader' = NextToLoad(loader)
       \/ /\ loader' = "failed"
          /\ UNCHANGED models
    /\ UNCHANGED <<models_loaded, sessionVars, audioVars, clockVars, reaperVars, req,
                   counterVars, nreq, oob>>

\* line 75: models_loaded.set()
LoaderSet ==
    /\ loader = "set"
    /\ models_loaded' = TRUE
    /\ loader' = "done"
    /\ UNCHANGED <<models, sessionVars, audioVars, clockVars, reaperVars, req,
                   counterVars, nreq, oob>>

\* ------------------------------------------------------------ environment
\* time passes
Tick ==
    /\ ticks < MaxTicks
    /\ \E d \in TickSteps : now' = now + d
    /\ ticks' = ticks + 1
    /\ UNCHANGED <<loaderVars, sessionVars, audioVars, reaperVars, req, counterVars,
                   nreq, oob>>

\* a file of TEMP_DIR is removed by something other than this program
OobDelete ==
    /\ Cardinality(oob) < MaxOob
    /\ \E p \in files :
          /\ files' = files \ {p}
          /\ oob' = oob \cup {p}
    /\ UNCHANGED <<loaderVars, sessionVars, audio_file_store, registered, clockVars,
                   reaperVars, req, counterVars, nreq>>

\* --------------------------------------------------------- request entry
\* the server hands the request to the first free thread
CanStart(r) == req[r].pc = "idle" /\ \A q \in Reqs : q < r => req[q].pc # "idle"

NewReq(ep) == [IdleReq EXCEPT !.ep = ep, !.rid = nreq + 1, !.early = ~models_loaded]

\* variant of ensure_models_loaded without the test of the event
EnsureModelsLoadedOpen(rec, body) == [rec EXCEPT !.pc = body, !.work = TRUE]

\* ensure_models_loaded (lines 110-116): 503 unless the event is set, else the body runs
EnsureModelsLoaded(rec, body) ==
    IF ~models_loaded THEN Return(rec, 503)
    ELSE [rec EXCEPT !.pc = body, !.work = TRUE]

\* an endpoint without the decorator: the body runs
Ungated(rec, body) == [rec EXCEPT !.pc = body, !.work = TRUE]

\* variant of the required-text test placed after the engine call
RequireTextLate(rec, engine) ==
    IF rec.pc = "done" THEN rec
    ELSE IF rec.msg = "" THEN Return([rec EXCEPT !.calls = Append(@, engine)], 400)
    ELSE rec

\* lines 154-155, 236-237, 379-380: `if not text: return ..., 400`
RequireText(rec, engine) ==
    IF rec.pc = "done" THEN rec
    ELSE IF rec.msg = "" THEN Return(rec, 400)
    ELSE rec

\* lines 201-202, 272-273: `if 'audio' not in request.files: return ..., 400`
RequireAudio(rec) ==
    IF rec.pc = "done" THEN rec
    ELSE IF ~rec.audio THEN Return(rec, 400)
    ELSE rec

Begin(r, rec) ==
    /\ req' = [req EXCEPT ![r] = rec]
    /\ nreq' = nreq + 1
    /\ UNCHANGED <<loaderVars, sessionVars, audioVars, clockVars, reaperVars,
                   counterVars, oob>>

KnownIds == {NoId} \cup ClientIds \cup ((UuidBase + 1)..(UuidBase + nextUuid))
KnownNames == ClientIds \cup ((UuidBase + 1)..(UuidBase + nextUuid))

\* POST /api/chat, lines 137-155
StartChat(r) ==
    /\ CanStart(r)
    /\ \E m \in Msgs \cup {""}, c \in KnownIds :
          Begin(r, RequireText(
                     EnsureModelsLoaded([NewReq("chat") EXCEPT !.msg = m, !.cid = c],
                                        "resolve"), "chatbot"))

\* POST /api/speech-to-text, lines 192-204
StartSpeechToText(r) ==
    /\ CanStart(r)
    /\ \E a \in BOOLEAN :
          Begin(r, RequireAudio(
                     EnsureModelsLoaded([NewReq("speech_to_text") EXCEPT !.audio = a],
                                        "save")))

\* POST /api/text-to-speech, lines 221-237
StartTextToSpeech(r) ==
    /\ CanStart(r)
    /\ \E m \in Msgs \cup {""} :
          Begin(r, RequireText(
                     EnsureModelsLoaded([NewReq("text_to_speech") EXCEPT !.msg = m],
                                        "narrate"), "narrator"))

\* POST /api/conversation-with-audio, lines 260-276
StartConversationWithAudio(r) ==
    /\ CanStart(r)
    /\ \E a \in BOOLEAN, c \in KnownIds :
          Begin(r, RequireAudio(
                     EnsureModelsLoaded(
                        [NewReq("conversation_with_audio") EXCEPT !.audio = a, !.cid = c],
                        "save")))

\* POST /api/language-feedback, lines 364-398: the placeholder scorer
LanguageFeedback(r) ==
    /\ CanStart(r)
    /\ \E m \in Msgs \cup {""} :
          LET rec == RequireText(
                        EnsureModelsLoaded(
                           [NewReq("language_feedback") EXCEPT !.msg = m], "score"),
                        "none")
          IN Begin(r, IF rec.pc = "score" THEN Return(rec, 200) ELSE rec)

\* GET /api/status, lines 129-135
Status(r) ==
    /\ CanStart(r)
    /\ Begin(r, Return([NewReq("status") EXCEPT !.flag = models_loaded], 200))

\* GET /api/audio/<filename>, lines 342-344
StartGetAudio(r) ==
    /\ CanStart(r)
    /\ \E f \in KnownNames :
          Begin(r, Ungated([NewReq("get_audio") EXCEPT
                               !.filename = f,
                               !.flag = (f \in swept),
                               !.known = (\E e \in registered : e.name = f)],
                           "ga_check"))

\* GET /api/conversations/<id>, lines 400-402
StartGetConversationHistory(r) ==
    /\ CanStart(r)
    /\ \E c \in KnownIds \ {NoId} :
          Begin(r, Ungated([NewReq("get_conversation_history") EXCEPT !.cid = c],
                           "gc_check"))

\* DELETE /api/conversations/<id>, lines 414-416
StartDeleteConversation(r) ==
    /\ CanStart(r)
    /\ \E c \in KnownIds \ {NoId} :
          Begin(r, Ungated([NewReq("delete_conversation") EXCEPT !.cid = c],
                           "del_check"))

\* the response has been sent; the thread takes the next request
Finish(r) ==
    /\ req[r].pc = "done"
    /\ req' = [req EXCEPT ![r] = IdleReq]
    /\ UNCHANGED <<loaderVars, sessionVars, audioVars, clockVars, reaperVars,
                   counterVars, nreq, oob>>


\* ------------------------------------------------- step of a request thread
\* Step(r, rec): thread r moves to rec; it touches no shared state
Step(r, rec) == req' = [req EXCEPT ![r] = rec]

At(r, label) == req[r].pc = label

\* models[name](...): KeyError if the key is absent, else the engine is invoked
Invoked(rec, name) == [rec EXCEPT !.calls = Append(@, name)]

\* the transformers Conversation object as the handlers drive it
\* line 168: Conversation(user_message)
NewConversation(text, sid) == <<[role |-> "user", content |-> text, sid |-> sid]>>

\* line 171: convo.add_user_input(content): ignored while the last message is a user's
AddUserInput(convo, turn) ==
    IF Len(convo) > 0 /\ convo[Len(convo)].role = "user" THEN convo
    ELSE Append(convo, [role |-> "user", content |-> turn.content, sid |-> turn.sid])

\* lines 173-174: convo.mark_processed(); convo.append_response(content)
AppendResponse(convo, turn) ==
    Append(convo, [role |-> "assistant", content |-> turn.content, sid |-> turn.sid])

\* lines 169-174: for prev_msg in history
RECURSIVE ReplayHistory(_, _)
ReplayHistory(convo, history) ==
    IF history = <<>> THEN convo
    ELSE ReplayHistory(
            IF Head(history).role = "user" THEN AddUserInput(convo, Head(history))
            ELSE AppendResponse(convo, Head(history)),
            Tail(history))

\* ---------------------------------------------- dialog turn (chat, round trip)
\* variant of Resolve that draws a uuid for an unknown id as it does for an empty one
ResolveMint(r) ==
    /\ At(r, "resolve")
    /\ IF req[r].cid = NoId \/ conversation_store[req[r].cid] = NoObj
       THEN /\ lists' = Append(lists, <<>>)
            /\ conversation_store' = [conversation_store EXCEPT ![Uuid4] = Len(lists) + 1]
            /\ nextUuid' = nextUuid + 1
            /\ Step(r, [req[r] EXCEPT !.cid = Uuid4, !.pc = "lookup",
                                       !.asked = req[r].cid,
                                       !.found = IF req[r].cid = NoId
                                                 THEN "empty" ELSE "unknown"])
       ELSE /\ Step(r, [req[r] EXCEPT !.pc = "lookup", !.asked = req[r].cid,
                                       !.found = "known"])
            /\ UNCHANGED <<lists, conversation_store, nextUuid>>
    /\ UNCHANGED <<loaderVars, log, deleted, audioVars, clockVars, reaperVars, nextTmp,
                   nreq, oob>>

\* lines 158-162 / 291-295: the tests of `if not conversation_id` and
\* `elif conversation_id not in conversation_store`; the uuid branch also stores the list
Resolve(r) ==
    /\ At(r, "resolve")
    /\ IF req[r].cid = NoId
       THEN /\ lists' = Append(lists, <<>>)
            /\ conversation_store' = [conversation_store EXCEPT ![Uuid4] = Len(lists) + 1]
            /\ nextUuid' = nextUuid + 1
            /\ Step(r, [req[r] EXCEPT !.cid = Uuid4, !.pc = "lookup",
                                       !.asked = req[r].cid, !.found = "empty"])
       ELSE /\ Step(r, [req[r] EXCEPT
                          !.pc = IF conversation_store[req[r].cid] = NoObj
                                 THEN "create" ELSE "lookup",
                          !.asked = req[r].cid,
                          !.found = IF conversation_store[req[r].cid] = NoObj
                                    THEN "unknown" ELSE "known"])
            /\ UNCHANGED <<lists, conversation_store, nextUuid>>
    /\ UNCHANGED <<loaderVars, log, deleted, audioVars, clockVars, reaperVars, nextTmp, nreq, oob>>

\* variant of Create in which every new conversation gets the same list object
CreateShared(r) ==
    /\ At(r, "create")
    /\ lists' = IF lists = <<>> THEN <<<<>>>> ELSE lists
    /\ conversation_store' = [conversation_store EXCEPT ![req[r].cid] = 1]
    /\ Step(r, [req[r] EXCEPT !.pc = "lookup"])
    /\ UNCHANGED <<loaderVars, log, deleted, audioVars, clockVars, reaperVars, counterVars,
                   nreq, oob>>

\* line 162 / 295: conversation_store[conversation_id] = []
Create(r) ==
    /\ At(r, "create")
    /\ lists' = Append(lists, <<>>)
    /\ conversation_store' = [conversation_store EXCEPT ![req[r].cid] = Len(lists) + 1]
    /\ Step(r, [req[r] EXCEPT !.pc = "lookup"])
    /\ UNCHANGED <<loaderVars, log, deleted, audioVars, clockVars, reaperVars, counterVars,
                   nreq, oob>>

\* line 165 / 298: history = conversation_store[conversation_id]
Lookup(r) ==
    /\ At(r, "lookup")
    /\ Step(r, IF conversation_store[req[r].cid] = NoObj
               THEN Raise(req[r], "dialog")
               ELSE [req[r] EXCEPT !.history = conversation_store[req[r].cid],
                                   !.pc = "replay"])
    /\ UNCHANGED <<loaderVars, sessionVars, audioVars, clockVars, reaperVars,
                   counterVars, nreq, oob>>

\* lines 168-174 / 301-307: the Conversation is built from the list as it is now
Replay(r) ==
    /\ At(r, "replay")
    /\ Step(r, [req[r] EXCEPT
                  !.convo = ReplayHistory(NewConversation(req[r].msg, req[r].cid),
                                          lists[req[r].history]),
                  !.pc = "engine"])
    /\ UNCHANGED <<loaderVars, sessionVars, audioVars, clockVars, reaperVars,
                   counterVars, nreq, oob>>

\* variant of Engine that indexes generated_responses without the emptiness test
EngineNoFallback(r) ==
    /\ At(r, "engine")
    /\ IF "chatbot" \notin models
       THEN Step(r, Raise(req[r], "dialog"))
       ELSE \/ \E t \in Replies :
                  Step(r, [Invoked(req[r], "chatbot") EXCEPT
                             !.response = t, !.pc = "append_user"])
            \/ Step(r, Raise([Invoked(req[r], "chatbot") EXCEPT !.empty = TRUE],
                              "dialog"))
            \/ Step(r, Raise(Invoked(req[r], "chatbot"), "dialog"))
    /\ UNCHANGED <<loaderVars, sessionVars, audioVars, clockVars, reaperVars,
                   counterVars, nreq, oob>>

\* lines 177-180 / 310-311: the dialog engine generates a response, generates none
\* (the fallback is taken) or raises
Engine(r) ==
    /\ At(r, "engine")
    /\ IF "chatbot" \notin models
       THEN Step(r, Raise(req[r], "dialog"))
       ELSE \/ \E t \in Replies :
                  Step(r, [Invoked(req[r], "chatbot") EXCEPT
                             !.response = t, !.pc = "append_user"])
            \/ Step(r, [Invoked(req[r], "chatbot") EXCEPT
                          !.response = Fallback, !.pc = "append_user",
                          !.empty = TRUE])
            \/ Step(r, Raise(Invoked(req[r], "chatbot"), "dialog"))
    /\ UNCHANGED <<loaderVars, sessionVars, audioVars, clockVars, reaperVars,
                   counterVars, nreq, oob>>

UserTurn(rec) ==
    [role |-> "user", content |-> rec.msg, rid |-> rec.rid, sid |-> rec.cid]

AssistantTurn(rec) ==
    [role |-> "assistant", content |-> rec.response, rid |-> rec.rid, sid |-> rec.cid]

\* line 183 / 314: history.append({'role': 'user', ...})
AppendUser(r) ==
    /\ At(r, "append_user")
    /\ lists' = [lists EXCEPT ![req[r].history] = Append(@, UserTurn(req[r]))]
    /\ Step(r, [req[r] EXCEPT !.pc = "append_assistant"])
    /\ UNCHANGED <<loaderVars, conversation_store, log, deleted, audioVars, clockVars,
                   reaperVars, counterVars, nreq, oob>>

\* variant of AppendAssistant that inserts the turn at the front of the list
AppendAssistantFirst(r) ==
    /\ At(r, "append_assistant")
    /\ lists' = [lists EXCEPT ![req[r].history] = <<AssistantTurn(req[r])>> \o @]
    /\ Step(r, [req[r] EXCEPT !.pc = "store_back"])
    /\ UNCHANGED <<loaderVars, conversation_store, log, deleted, audioVars, clockVars,
                   reaperVars, counterVars, nreq, oob>>

\* line 184 / 315: history.append({'role': 'assistant', ...})
AppendAssistant(r) ==
    /\ At(r, "append_assistant")
    /\ lists' = [lists EXCEPT ![req[r].history] = Append(@, AssistantTurn(req[r]))]
    /\ Step(r, [req[r] EXCEPT !.pc = "store_back"])
    /\ UNCHANGED <<loaderVars, conversation_store, log, deleted, audioVars, clockVars,
                   reaperVars, counterVars, nreq, oob>>

\* line 185 / 316: conversation_store[conversation_id] = history; chat then returns
\* (lines 187-190), the round trip goes on to synthesis (line 319)
StoreBack(r) ==
    /\ At(r, "store_back")
    /\ conversation_store' = [conversation_store EXCEPT ![req[r].cid] = req[r].history]
    /\ log' = [log EXCEPT ![req[r].cid] = Append(@, <<req[r].msg, req[r].response>>)]
    /\ Step(r, IF req[r].ep = "chat"
               THEN Return([req[r] EXCEPT !.result = <<req[r].response, req[r].cid>>], 200)
               ELSE [req[r] EXCEPT !.pc = "narrate"])
    /\ UNCHANGED <<loaderVars, lists, deleted, audioVars, clockVars, reaperVars,
                   counterVars, nreq, oob>>


\* ------------------------------------------------------------ transcription
Transcripts == {"hi"}          \* texts the speech-recognition engine returns

\* lines 207-209 / 279-281: NamedTemporaryFile(delete=False, ...), audio_file.save
SaveTemp(r) ==
    /\ At(r, "save")
    /\ files' = files \cup {TmpPath(nextTmp + 1)}
    /\ nextTmp' = nextTmp + 1
    /\ Step(r, [req[r] EXCEPT !.temp = nextTmp + 1, !.pc = "asr"])
    /\ UNCHANGED <<loaderVars, sessionVars, audio_file_store, registered, clockVars,
                   reaperVars, nextUuid, nreq, oob>>

\* variant of Transcribe in which the engine's exception is swallowed and the
\* handler goes on with an empty transcript
TranscribeSwallow(r) ==
    /\ At(r, "asr")
    /\ IF "asr" \notin models
       THEN Step(r, Raise(req[r], "asr"))
       ELSE \/ \E t \in Transcripts :
                  Step(r, [Invoked(req[r], "asr") EXCEPT !.msg = t, !.pc = "unlink"])
            \/ Step(r, [Invoked(req[r], "asr") EXCEPT
                          !.failed = "asr", !.msg = "", !.pc = "unlink"])
    /\ UNCHANGED <<loaderVars, sessionVars, audioVars, clockVars, reaperVars,
                   counterVars, nreq, oob>>

\* line 212 / 284-285: models["asr"](temp_file.name) returns a transcript or raises
Transcribe(r) ==
    /\ At(r, "asr")
    /\ IF "asr" \notin models
       THEN Step(r, Raise(req[r], "asr"))
       ELSE \/ \E t \in Transcripts :
                  Step(r, [Invoked(req[r], "asr") EXCEPT !.msg = t, !.pc = "unlink"])
            \/ Step(r, Raise(Invoked(req[r], "asr"), "asr"))
    /\ UNCHANGED <<loaderVars, sessionVars, audioVars, clockVars, reaperVars,
                   counterVars, nreq, oob>>

\* line 215 / 288: os.unlink(temp_file.name); speech-to-text then returns (217-219)
UnlinkTemp(r) ==
    /\ At(r, "unlink")
    /\ IF TmpPath(req[r].temp) \in files
       THEN /\ files' = files \ {TmpPath(req[r].temp)}
            /\ Step(r, IF req[r].ep = "speech_to_text"
                       THEN Return([req[r] EXCEPT !.result = <<req[r].msg>>], 200)
                       ELSE [req[r] EXCEPT !.pc = "resolve"])
       ELSE /\ Step(r, Raise(req[r], "asr"))
            /\ UNCHANGED files
    /\ UNCHANGED <<loaderVars, sessionVars, audio_file_store, registered, clockVars,
                   reaperVars, counterVars, nreq, oob>>

\* ---------------------------------------------------------------- synthesis
\* line 240 / 319: models["narrator"](text) returns a waveform or raises
Narrate(r) ==
    /\ At(r, "narrate")
    /\ IF "narrator" \notin models
       THEN Step(r, Raise(req[r], "narrator"))
       ELSE \/ Step(r, [Invoked(req[r], "narrator") EXCEPT !.pc = "write"])
            \/ Step(r, Raise(Invoked(req[r], "narrator"), "narrator"))
    /\ UNCHANGED <<loaderVars, sessionVars, audioVars, clockVars, reaperVars,
                   counterVars, nreq, oob>>

\* lines 243-247 / 322-326: a fresh name, then wav.write: the file is written, or
\* the write raises with the file created or not
WriteWav(r) ==
    /\ At(r, "write")
    /\ nextUuid' = nextUuid + 1
    /\ \/ /\ files' = files \cup {WavPath(Uuid4)}
          /\ Step(r, [req[r] EXCEPT !.filename = Uuid4, !.path = WavPath(Uuid4),
                                    !.pc = "register"])
       \/ /\ files' \in {files, files \cup {WavPath(Uuid4)}}
          /\ Step(r, Raise([req[r] EXCEPT !.filename = Uuid4, !.path = WavPath(Uuid4)],
                           "write"))
    /\ UNCHANGED <<loaderVars, sessionVars, audio_file_store, registered, clockVars,
                   reaperVars, nextTmp, nreq, oob>>

\* lines 250-258 / 329-340: audio_file_store[filename] = {...}; return
Register(r) ==
    /\ At(r, "register")
    /\ audio_file_store' =
          Append(audio_file_store,
                 [name |-> req[r].filename, path |-> req[r].path, timestamp |-> now,
                  type |-> "audio/wav"])
    /\ registered' = registered \cup {[name |-> req[r].filename, timestamp |-> now]}
    /\ Step(r, Return([req[r] EXCEPT !.result = <<req[r].filename>>], 200))
    /\ UNCHANGED <<loaderVars, sessionVars, files, clockVars, reaperVars, counterVars,
                   nreq, oob>>

\* ---------------------------------------------------------------- get_audio
\* lines 348-349
GetAudioCheck(r) ==
    /\ At(r, "ga_check")
    /\ Step(r, IF InStore(req[r].filename) THEN [req[r] EXCEPT !.pc = "ga_lookup"]
               ELSE Return(req[r], 404))
    /\ UNCHANGED <<loaderVars, sessionVars, audioVars, clockVars, reaperVars,
                   counterVars, nreq, oob>>

\* lines 351-352: KeyError if the entry went away since the test
GetAudioLookup(r) ==
    /\ At(r, "ga_lookup")
    /\ Step(r, IF InStore(req[r].filename)
               THEN [req[r] EXCEPT !.path = Entry(req[r].filename).path,
                                   !.pc = "ga_exists"]
               ELSE Raise(req[r], "get"))
    /\ UNCHANGED <<loaderVars, sessionVars, audioVars, clockVars, reaperVars,
                   counterVars, nreq, oob>>

\* lines 354-355: the entry stays in audio_file_store
GetAudioExists(r) ==
    /\ At(r, "ga_exists")
    /\ Step(r, IF req[r].path \in files THEN [req[r] EXCEPT !.pc = "ga_send"]
               ELSE Return(req[r], 404))
    /\ UNCHANGED <<loaderVars, sessionVars, audioVars, clockVars, reaperVars,
                   counterVars, nreq, oob>>

\* lines 357-362: send_file opens the path; it raises if the file went away
GetAudioSend(r) ==
    /\ At(r, "ga_send")
    /\ Step(r, IF req[r].path \in files
               THEN Return([req[r] EXCEPT !.result = req[r].path], 200)
               ELSE Raise(req[r], "get"))
    /\ UNCHANGED <<loaderVars, sessionVars, audioVars, clockVars, reaperVars,
                   counterVars, nreq, oob>>

\* ------------------------------------- get_conversation_history, delete
\* lines 406-407
GetConversationCheck(r) ==
    /\ At(r, "gc_check")
    /\ Step(r, IF conversation_store[req[r].cid] = NoObj THEN Return(req[r], 404)
               ELSE [req[r] EXCEPT !.pc = "gc_read"])
    /\ UNCHANGED <<loaderVars, sessionVars, audioVars, clockVars, reaperVars,
                   counterVars, nreq, oob>>

\* lines 409-412: jsonify of conversation_store[conversation_id]
GetConversationRead(r) ==
    /\ At(r, "gc_read")
    /\ Step(r, IF conversation_store[req[r].cid] = NoObj THEN Raise(req[r], "read")
               ELSE Return([req[r] EXCEPT
                              !.result = lists[conversation_store[req[r].cid]]], 200))
    /\ UNCHANGED <<loaderVars, sessionVars, audioVars, clockVars, reaperVars,
                   counterVars, nreq, oob>>

\* line 420, and lines 423-426 when the id is unknown
DeleteCheck(r) ==
    /\ At(r, "del_check")
    /\ Step(r, IF conversation_store[req[r].cid] = NoObj THEN Return(req[r], 200)
               ELSE [req[r] EXCEPT !.pc = "del"])
    /\ UNCHANGED <<loaderVars, sessionVars, audioVars, clockVars, reaperVars,
                   counterVars, nreq, oob>>

\* lines 421-426: del conversation_store[conversation_id]
DeleteDo(r) ==
    /\ At(r, "del")
    /\ IF conversation_store[req[r].cid] = NoObj
       THEN /\ Step(r, Raise(req[r], "delete"))
            /\ UNCHANGED <<conversation_store, log, deleted>>
       ELSE /\ conversation_store' = [conversation_store EXCEPT ![req[r].cid] = NoObj]
            /\ log' = [log EXCEPT ![req[r].cid] = <<>>]
            /\ deleted' = deleted \cup {[cid |-> req[r].cid,
                                          obj |-> conversation_store[req[r].cid]]}
            /\ Step(r, Return(req[r], 200))
    /\ UNCHANGED <<loaderVars, lists, audioVars, clockVars, reaperVars, counterVars,
                   nreq, oob>>


\* -------------------------------------------------------- cleanup_old_files
\* variant of Expired with >= for >
ExpiredInclusive(current_time, timestamp) ==
    current_time - timestamp >= AUDIO_RETENTION_SECONDS

\* line 90: current_time - info["timestamp"] > Config.AUDIO_RETENTION_SECONDS
Expired(current_time, timestamp) ==
    current_time - timestamp > AUDIO_RETENTION_SECONDS

ExpiredNames(snapshot, current_time) ==
    {snapshot[k].name : k \in {j \in 1..Len(snapshot) :
                                  current_time - snapshot[j].timestamp
                                      > AUDIO_RETENTION_SECONDS}}

\* lines 87-89: current_time = time.time(); list(audio_file_store.items())
ReaperScan ==
    /\ reaper.pc = "scan"
    /\ reaper' = [reaper EXCEPT !.pc = "item", !.current_time = now,
                                !.snapshot = audio_file_store, !.i = 1, !.clean = TRUE,
                                !.failed = {}, !.errored = FALSE]
    /\ UNCHANGED <<loaderVars, sessionVars, audioVars, clockVars, removed, swept, req,
                   counterVars, nreq, oob>>

\* lines 89-93: the next item of the snapshot: skipped unless expired, else
\* os.path.exists(file_path); line 101 after the last item: time.sleep(300)
ReaperItem ==
    /\ reaper.pc = "item"
    /\ IF reaper.i > Len(reaper.snapshot)
       THEN /\ reaper' = [reaper EXCEPT !.pc = "sleep", !.wakeAt = now + CleanupSleep]
            /\ swept' = IF reaper.clean
                        THEN swept \cup ExpiredNames(reaper.snapshot, reaper.current_time)
                        ELSE swept
       ELSE /\ reaper' =
                  IF Expired(reaper.current_time, reaper.snapshot[reaper.i].timestamp)
                  THEN [reaper EXCEPT
                          !.pc = IF reaper.snapshot[reaper.i].path \in files
                                 THEN "unlink" ELSE "del"]
                  ELSE [reaper EXCEPT !.i = @ + 1]
            /\ UNCHANGED swept
    /\ UNCHANGED <<loaderVars, sessionVars, audioVars, clockVars, removed, req,
                   counterVars, nreq, oob>>

\* variant of ReaperUnlink in which a raising os.unlink ends the cycle
ReaperUnlinkAbort ==
    /\ reaper.pc = "unlink"
    /\ LET info == reaper.snapshot[reaper.i]
       IN \/ /\ info.path \in files
             /\ files' = files \ {info.path}
             /\ removed' = removed \cup {[name |-> info.name, at |-> reaper.current_time,
                                          timestamp |-> info.timestamp]}
             /\ reaper' = [reaper EXCEPT !.pc = "del"]
          \/ /\ reaper.failures < MaxFailures
             /\ reaper' = [reaper EXCEPT !.pc = "item", !.i = Len(reaper.snapshot) + 1,
                                         !.clean = FALSE,
                                         !.failed = @ \cup {info.name},
                                         !.failures = @ + 1]
             /\ UNCHANGED <<files, removed>>
    /\ UNCHANGED <<loaderVars, sessionVars, audio_file_store, registered, clockVars,
                   swept, req, counterVars, nreq, oob>>

\* line 94: os.unlink(file_path); lines 97-98 when it raises: logged, next item
ReaperUnlink ==
    /\ reaper.pc = "unlink"
    /\ LET info == reaper.snapshot[reaper.i]
       IN \/ /\ info.path \in files
             /\ files' = files \ {info.path}
             /\ removed' = removed \cup {[name |-> info.name, at |-> reaper.current_time,
                                          timestamp |-> info.timestamp]}
             /\ reaper' = [reaper EXCEPT !.pc = "del"]
          \/ /\ reaper.failures < MaxFailures
             /\ reaper' = [reaper EXCEPT !.pc = "item", !.i = @ + 1, !.clean = FALSE,
                                         !.failed = @ \cup {info.name},
                                         !.failures = @ + 1]
             /\ UNCHANGED <<files, removed>>
    /\ UNCHANGED <<loaderVars, sessionVars, audio_file_store, registered, clockVars,
                   swept, req, counterVars, nreq, oob>>

\* variant of ReaperDel that leaves the entry in audio_file_store
ReaperDelKeep ==
    /\ reaper.pc = "del"
    /\ reaper' = [reaper EXCEPT !.pc = "item", !.i = @ + 1]
    /\ UNCHANGED <<loaderVars, sessionVars, audioVars, clockVars, removed, swept, req,
                   counterVars, nreq, oob>>

\* line 95: del audio_file_store[filename]; lines 97-98 on KeyError
ReaperDel ==
    /\ reaper.pc = "del"
    /\ LET info == reaper.snapshot[reaper.i]
       IN IF InStore(info.name)
          THEN /\ audio_file_store' = Without(audio_file_store, info.name)
               /\ removed' = removed \cup {[name |-> info.name,
                                            at |-> reaper.current_time,
                                            timestamp |-> info.timestamp]}
               /\ reaper' = [reaper EXCEPT !.pc = "item", !.i = @ + 1]
          ELSE /\ reaper' = [reaper EXCEPT !.pc = "item", !.i = @ + 1, !.clean = FALSE,
                                           !.failed = @ \cup {info.name}]
               /\ UNCHANGED <<audio_file_store, removed>>
    /\ UNCHANGED <<loaderVars, sessionVars, files, registered, clockVars, swept, req,
                   counterVars, nreq, oob>>

\* variant of ReaperError without the outer except: the exception ends the thread
ReaperErrorDies ==
    /\ reaper.pc \in {"scan", "item"}
    /\ reaper.errors < MaxErrors
    /\ reaper' = [reaper EXCEPT !.pc = "dead", !.clean = FALSE, !.errored = TRUE,
                                !.errors = @ + 1]
    /\ UNCHANGED <<loaderVars, sessionVars, audioVars, clockVars, removed, swept, req,
                   counterVars, nreq, oob>>

\* lines 102-104: a statement of the cycle outside the inner try raises; the outer
\* except logs it and the thread sleeps 60 seconds
ReaperError ==
    /\ reaper.pc \in {"scan", "item"}
    /\ reaper.errors < MaxErrors
    /\ reaper' = [reaper EXCEPT !.pc = "sleep", !.wakeAt = now + CleanupErrorSleep,
                                !.clean = FALSE, !.errored = TRUE, !.errors = @ + 1]
    /\ UNCHANGED <<loaderVars, sessionVars, audioVars, clockVars, removed, swept, req,
                   counterVars, nreq, oob>>

\* the time until the cleanup thread's sleep returns passes (followed while an
\* artifact is registered)
Elapse ==
    /\ reaper.pc = "sleep"
    /\ now < reaper.wakeAt
    /\ audio_file_store # <<>>
    /\ now' = reaper.wakeAt
    /\ UNCHANGED <<loaderVars, sessionVars, audioVars, ticks, reaperVars, req,
                   counterVars, nreq, oob>>

\* line 101 or line 104 returns: the sleep is over, line 85 loops
ReaperWake ==
    /\ reaper.pc = "sleep"
    /\ now >= reaper.wakeAt
    /\ reaper' = [reaper EXCEPT !.pc = "scan"]
    /\ UNCHANGED <<loaderVars, sessionVars, audioVars, clockVars, removed, swept, req,
                   counterVars, nreq, oob>>

\* ------------------------------------------------------------ specification
Loader == LoadModel \/ LoaderSet

Cleanup == ReaperScan \/ ReaperItem \/ ReaperUnlink \/ ReaperDel \/ ReaperWake

Environment == Tick \/ OobDelete

\* the statements of a dialog turn
Dialog(r) ==
    \/ Resolve(r) \/ Create(r) \/ Lookup(r) \/ Replay(r) \/ Engine(r)
    \/ AppendUser(r) \/ AppendAssistant(r) \/ StoreBack(r)

Transcription(r) == SaveTemp(r) \/ Transcribe(r) \/ UnlinkTemp(r)

Synthesis(r) == Narrate(r) \/ WriteWav(r) \/ Register(r)

GetAudio(r) ==
    GetAudioCheck(r) \/ GetAudioLookup(r) \/ GetAudioExists(r) \/ GetAudioSend(r)

Conversations(r) ==
    \/ GetConversationCheck(r) \/ GetConversationRead(r)
    \/ DeleteCheck(r) \/ DeleteDo(r)

Receive(r) ==
    \/ StartChat(r)
    \/ StartSpeechToText(r)
    \/ StartTextToSpeech(r)
    \/ StartConversationWithAudio(r)
    \/ LanguageFeedback(r)
    \/ Status(r)
    \/ StartGetAudio(r)
    \/ StartGetConversationHistory(r)
    \/ StartDeleteConversation(r)

Handle(r) ==
    \/ Dialog(r) \/ Transcription(r) \/ Synthesis(r) \/ GetAudio(r) \/ Conversations(r)
    \/ Finish(r)

\* the whole process: the loader thread, the cleanup thread, the clock, the
\* directory, and request threads that run concurrently
Next ==
    \/ Loader \/ Cleanup \/ ReaperError \/ Environment \/ Elapse
    \/ \E r \in Reqs : (nreq < MaxStarts /\ Receive(r)) \/ Handle(r)

Spec == Init /\ [][Next]_vars

NoneInFlight == \A q \in Reqs : req[q].pc = "idle"

\* every endpoint, with a client that sends a request only after the response to
\* the previous one; no cleanup, no clock
NextSeq ==
    \/ Loader
    \/ \E r \in Reqs : (nreq < MaxStarts /\ NoneInFlight /\ Receive(r)) \/ Handle(r)

SpecSeq == Init /\ [][NextSeq]_vars

\* chat, read and delete of conversations, with a client that sends a request only
\* after the response to the previous one
NextTurns ==
    \/ Loader
    \/ \E r \in Reqs :
          \/ /\ nreq < MaxSeqStarts
             /\ NoneInFlight
             /\ \/ StartChat(r)
                \/ StartGetConversationHistory(r) \/ StartDeleteConversation(r)
          \/ Dialog(r) \/ Conversations(r)
          \/ Finish(r)

SpecTurns == Init /\ [][NextTurns]_vars

\* the conversation endpoints, requests running concurrently
NextDialog ==
    \/ Loader
    \/ \E r \in Reqs :
          \/ /\ nreq < MaxStarts
             /\ \/ StartChat(r) \/ StartConversationWithAudio(r)
                \/ StartGetConversationHistory(r) \/ StartDeleteConversation(r)
          \/ Dialog(r) \/ Transcription(r) \/ Synthesis(r) \/ Conversations(r)
          \/ Finish(r)

SpecDialog == Init /\ [][NextDialog]_vars

\* the audio artifacts: synthesis and get_audio requests, one at a time, running
\* concurrently with the cleanup thread, the clock and out-of-band removals
NextAudio ==
    \/ Loader \/ Cleanup \/ Environment
    \/ \E r \in Reqs :
          \/ /\ nreq < MaxStarts
             /\ NoneInFlight
             /\ StartTextToSpeech(r) \/ StartGetAudio(r)
          \/ Synthesis(r) \/ GetAudio(r)
          \/ Finish(r)

SpecAudio == Init /\ [][NextAudio]_vars

\* the cleanup thread with its outer except, synthesis requests one at a time, and
\* the time of each sleep passing; the thread is scheduled whenever it can run and
\* every sleep returns
NextReaper ==
    \/ Loader \/ Cleanup \/ ReaperError \/ Elapse
    \/ \E r \in Reqs :
          \/ /\ nreq < MaxStarts
             /\ NoneInFlight
             /\ StartTextToSpeech(r)
          \/ Synthesis(r)
          \/ Finish(r)

SpecReaper ==
    Init /\ [][NextReaper]_vars /\ WF_vars(Cleanup) /\ WF_vars(Elapse)


\* ================================================================== claims
Done(r) == req[r].pc = "done"

\* the turns as a client reads them: role and content
Messages(turns) ==
    [k \in 1..Len(turns) |-> [role |-> turns[k].role, content |-> turns[k].content]]

\* the turns that a sequence of (text, response) pairs stands for
RECURSIVE Flatten(_)
Flatten(pairs) ==
    IF pairs = <<>> THEN <<>>
    ELSE <<[role |-> "user", content |-> Head(pairs)[1]],
           [role |-> "assistant", content |-> Head(pairs)[2]]>> \o Flatten(Tail(pairs))

\* C1: with requests sent one after another, whenever no request is in progress
\* every stored conversation holds exactly the turns of the dialog turns completed
\* on its id since it was created: 2N turns for N turns, in call order, user then
\* assistant, each pair the request's text and the response returned to it; and a
\* read of the conversation returns exactly those turns.
TurnsInCallOrder ==
    /\ (\A r \in Reqs : req[r].pc \in {"idle", "done"}) =>
          \A c \in SessionIds :
             conversation_store[c] # NoObj =>
                /\ Messages(lists[conversation_store[c]]) = Flatten(log[c])
                /\ Len(lists[conversation_store[c]]) = 2 * Len(log[c])
    /\ \A r \in Reqs :
          (Done(r) /\ req[r].ep = "get_conversation_history" /\ req[r].status = 200) =>
             /\ Messages(req[r].result) = Flatten(log[req[r].cid])
             /\ Len(req[r].result) = 2 * Len(log[req[r].cid])

\* two chat turns on one id, then a read that returns four turns
TurnsInCallOrderWitness ==
    \E r \in Reqs :
       /\ Done(r) /\ req[r].ep = "get_conversation_history" /\ req[r].status = 200
       /\ Len(log[req[r].cid]) = 2
       /\ Len(req[r].result) = 4
       /\ req[r].result[1].rid # req[r].result[3].rid

\* C2: in every conversation a user turn that is not the last turn is followed by
\* the assistant turn of the same request.
PairsAdjacent ==
    \A c \in SessionIds :
       conversation_store[c] # NoObj =>
          LET turns == lists[conversation_store[c]]
          IN \A k \in 1..Len(turns) :
                (turns[k].role = "user" /\ k < Len(turns)) =>
                   /\ turns[k + 1].role = "assistant"
                   /\ turns[k + 1].rid = turns[k].rid

\* C3: every turn stored under an id was appended by a request addressed to that
\* id, and every message of the Conversation a request hands to the dialog engine
\* is the request's own text or a turn of the request's own id.
SessionsIsolated ==
    /\ \A c \in SessionIds :
          conversation_store[c] # NoObj =>
             \A k \in 1..Len(lists[conversation_store[c]]) :
                lists[conversation_store[c]][k].sid = c
    /\ \A r \in Reqs :
          \A k \in 1..Len(req[r].convo) : req[r].convo[k].sid = req[r].cid

\* two requests on distinct ids in flight together: one has appended its turns,
\* the other has built its Conversation
SessionsIsolatedWitness ==
    \E r1 \in Reqs, r2 \in Reqs :
       /\ req[r1].cid # req[r2].cid
       /\ req[r1].pc = "store_back"
       /\ Len(lists[req[r1].history]) = 2
       /\ req[r2].pc = "engine"
       /\ req[r2].convo # <<>>


\* C4 (as stated): a request to any endpoint but the status probe that arrives
\* while the readiness flag is false ends with 503 and its body never runs.
NotReadyMeans503 ==
    \A r \in Reqs :
       (req[r].early /\ req[r].ep \notin {"none", "status"}) =>
          /\ Done(r) /\ req[r].status = 503
          /\ ~req[r].work

\* C4 (amended): a request to chat, speech-to-text, text-to-speech,
\* conversation-with-audio or language-feedback that arrives while the readiness
\* flag is false ends with 503, its body never runs and no engine is invoked.
GatedNotReadyMeans503 ==
    \A r \in Reqs :
       (req[r].early /\ req[r].ep \in GatedEndpoints) =>
          /\ Done(r) /\ req[r].status = 503
          /\ ~req[r].work
          /\ req[r].calls = <<>>

\* a round-trip request turned away while the models are loading
GatedNotReadyWitness ==
    \E r \in Reqs :
       /\ req[r].early /\ req[r].ep = "conversation_with_audio" /\ req[r].audio
       /\ Done(r) /\ req[r].status = 503
       /\ ~models_loaded

\* C5: a request that ended with 503 or 400 invoked no engine, and a request that
\* has invoked an engine passed the readiness check and carried its required field.
RejectedBeforeEngine ==
    \A r \in Reqs :
       /\ req[r].status \in {400, 503} => req[r].calls = <<>>
       /\ req[r].calls # <<>> =>
             /\ req[r].work /\ ~req[r].early
             /\ req[r].ep \in {"chat", "text_to_speech"} => req[r].msg # ""
             /\ req[r].ep \in {"speech_to_text", "conversation_with_audio"} =>
                   req[r].audio

\* an empty chat message is refused with 400 once the models are loaded
RejectedBeforeEngineWitness ==
    \E r \in Reqs :
       /\ req[r].ep = "chat" /\ req[r].msg = "" /\ ~req[r].early
       /\ Done(r) /\ req[r].status = 400

\* the round trip's state: 1 Received, 2 Transcribed, 3 Responded, 4 Synthesized,
\* 5 Complete, 6 Failed
Stage(rec) ==
    IF rec.pc \in {"save", "asr"} THEN 1
    ELSE IF rec.pc \in {"unlink", "resolve", "create", "lookup", "replay", "engine"} THEN 2
    ELSE IF rec.pc \in {"append_user", "append_assistant", "store_back", "narrate"} THEN 3
    ELSE IF rec.pc \in {"write", "register"} THEN 4
    ELSE IF rec.pc = "done" /\ rec.status = 200 THEN 5
    ELSE 6

Pipeline == <<"asr", "chatbot", "narrator">>

RoundTripStep(r) ==
    (req'[r].ep = "conversation_with_audio" /\ req'[r].status \notin {400, 503}) =>
       LET old == IF req[r].ep = "conversation_with_audio" THEN Stage(req[r]) ELSE 1
           new == Stage(req'[r])
           callsBefore == IF req[r].ep = "conversation_with_audio"
                          THEN req[r].calls ELSE <<>>
       IN /\ new \in {old, old + 1, 6}
          /\ old \in {5, 6} => new = old
          /\ new \in 1..4 => req'[r].calls = SubSeq(Pipeline, 1, new - 1)
          /\ new = 5 => req'[r].calls = Pipeline /\ req'[r].failed = ""
          /\ new = 6 => /\ req'[r].status = 500
                        /\ req'[r].failed # ""
                        /\ old = 6 \/ Len(req'[r].calls) \in {old - 1, old}
          /\ \E k \in 0..3 : req'[r].calls = SubSeq(Pipeline, 1, k)
          /\ Len(req'[r].calls) <= Len(callsBefore) + 1
          /\ req'[r].failed # "" => new = 6

\* C6: a round-trip request moves Received, Transcribed, Responded, Synthesized,
\* Complete one step at a time or into Failed; the engines invoked so far are the
\* first stages of asr, chatbot, narrator, each once; a request whose stage raised
\* is Failed with status 500, invokes nothing further and never becomes Complete.
RoundTripInOrder == [][\A r \in Reqs : RoundTripStep(r)]_vars

\* the dialog engine raised: asr and chatbot were invoked, the narrator was not
RoundTripInOrderWitness ==
    \E r \in Reqs :
       /\ req[r].ep = "conversation_with_audio"
       /\ Done(r) /\ req[r].status = 500 /\ req[r].failed = "dialog"
       /\ req[r].calls = <<"asr", "chatbot">>

\* C7: once a transcription request has finished, the temporary file it wrote is
\* gone.
TempFileGone ==
    \A r \in Reqs :
       (Done(r) /\ req[r].temp # 0) => TmpPath(req[r].temp) \notin files


\* C8: a get_audio request that found the entry, found its file missing and
\* answered 404 leaves no entry under that name.
StaleEntryDropped ==
    \A r \in Reqs :
       (Done(r) /\ req[r].ep = "get_audio" /\ req[r].status = 404
          /\ req[r].path # <<>>) =>
          ~InStore(req[r].filename)

\* C9: every name that was expired (current_time - timestamp > 3600) in the
\* snapshot of a completed cleanup cycle in which no removal failed has neither an
\* entry nor a file, and a get_audio request for it received after that cycle
\* answers 404.
SweepRemovesExpired ==
    /\ \A n \in swept : ~InStore(n) /\ WavPath(n) \notin files
    /\ (reaper.pc = "sleep" /\ reaper.clean) =>
          \A k \in 1..Len(reaper.snapshot) :
             reaper.current_time - reaper.snapshot[k].timestamp > 3600 =>
                /\ ~InStore(reaper.snapshot[k].name)
                /\ reaper.snapshot[k].path \notin files
    /\ \A r \in Reqs :
          (Done(r) /\ req[r].ep = "get_audio" /\ req[r].flag) => req[r].status = 404

\* an artifact registered at T was removed by the cycle at T + 3601 and a later
\* get_audio for it answered 404
SweepRemovesExpiredWitness ==
    \E r \in Reqs :
       /\ Done(r) /\ req[r].ep = "get_audio" /\ req[r].flag /\ req[r].status = 404
       /\ \E x \in removed :
             x.name = req[r].filename /\ x.at - x.timestamp = 3601
       /\ reaper.clean

\* C10: the cleanup removes a file or an entry only when current_time - timestamp
\* > 3600; an artifact that was registered, whose age is at most 3600 and whose
\* file was not removed out of band has its entry and its file; and a get_audio
\* request for it, received after it was registered, answers 200 with the path
\* the file was written to.
UnexpiredKept ==
    /\ \A x \in removed : x.at - x.timestamp > 3600
    /\ \A e \in registered :
          (now - e.timestamp <= 3600 /\ WavPath(e.name) \notin oob) =>
             /\ InStore(e.name)
             /\ Entry(e.name).timestamp = e.timestamp
             /\ WavPath(e.name) \in files
             /\ \A r \in Reqs :
                   (Done(r) /\ req[r].ep = "get_audio" /\ req[r].filename = e.name
                      /\ req[r].known) =>
                      /\ req[r].status = 200
                      /\ req[r].result = WavPath(e.name)

\* an artifact aged exactly 3600 went through a cleanup cycle and was then served
UnexpiredKeptWitness ==
    \E r \in Reqs, e \in registered :
       /\ Done(r) /\ req[r].ep = "get_audio" /\ req[r].filename = e.name
       /\ req[r].status = 200
       /\ reaper.pc = "sleep"
       /\ reaper.current_time - e.timestamp = 3600
       /\ \E k \in 1..Len(reaper.snapshot) : reaper.snapshot[k].name = e.name
       /\ now - e.timestamp = 3600


\* C11: when a cleanup cycle reaches its end, every entry of its snapshot that was
\* expired has been removed from audio_file_store together with its file, except
\* the entries whose removal raised in this cycle, and those are still in
\* audio_file_store for a later cycle: a failed removal does not end the cycle
FailedRemovalSkipped ==
    (reaper.pc = "sleep" /\ ~reaper.errored) =>
        \A k \in 1..Len(reaper.snapshot) :
            LET info == reaper.snapshot[k]
            IN Expired(reaper.current_time, info.timestamp) =>
                   IF info.name \in reaper.failed
                   THEN InStore(info.name)
                   ELSE ~InStore(info.name) /\ info.path \notin files

\* a cycle ended in which the removal of one expired entry raised and a later
\* expired entry of the same snapshot was removed
FailedRemovalSkippedWitness ==
    /\ reaper.pc = "sleep" /\ ~reaper.errored
    /\ \E j, k \in 1..Len(reaper.snapshot) :
          /\ j < k
          /\ Expired(reaper.current_time, reaper.snapshot[j].timestamp)
          /\ Expired(reaper.current_time, reaper.snapshot[k].timestamp)
          /\ reaper.snapshot[j].name \in reaper.failed
          /\ InStore(reaper.snapshot[j].name)
          /\ reaper.snapshot[k].name \notin reaper.failed
          /\ ~InStore(reaper.snapshot[k].name)
          /\ reaper.snapshot[k].path \notin files


ReaperPositions == {"scan", "item", "unlink", "del", "sleep"}

ArtifactNames == (UuidBase + 1)..(UuidBase + 2 * (MaxStarts + MaxSeqStarts))

\* the cleanup thread starts a sleep: 60 seconds after an error, else 300 seconds
ReaperSleepStep ==
    (reaper.pc # "sleep" /\ reaper'.pc = "sleep") =>
        reaper'.wakeAt = now + (IF reaper'.errors > reaper.errors THEN 60 ELSE 300)

\* C12: the cleanup thread never ends; a cycle that raised is followed by a sleep
\* of 60 seconds and every other cycle by a sleep of 300 seconds, and after either
\* the thread sweeps again; so every registered artifact older than the retention
\* window is eventually removed from audio_file_store
ReaperKeepsSweeping ==
    /\ [](reaper.pc \in ReaperPositions)
    /\ [][ReaperSleepStep]_vars
    /\ (reaper.pc = "sleep" /\ audio_file_store # <<>>) ~> (reaper.pc = "item")
    /\ \A n \in ArtifactNames :
          (InStore(n) /\ now - Entry(n).timestamp > AUDIO_RETENTION_SECONDS)
              ~> ~InStore(n)

\* after a cycle that raised, a later cycle ran to its end, removed an expired
\* artifact and went to the 300-second sleep
ReaperKeepsSweepingWitness ==
    /\ reaper.errors > 0 /\ ~reaper.errored
    /\ reaper.pc = "sleep" /\ reaper.wakeAt = now + 300
    /\ \E k \in 1..Len(reaper.snapshot) :
          /\ Expired(reaper.current_time, reaper.snapshot[k].timestamp)
          /\ ~InStore(reaper.snapshot[k].name)


\* C13: a get_audio request for a file that nothing but the program removes ends
\* with the bytes (200) or with 404, never with 500, however its statements
\* interleave with a cleanup cycle that removes the same artifact
GetRacingSweepNever500 ==
    \A r \in Reqs :
        (Done(r) /\ req[r].ep = "get_audio" /\ WavPath(req[r].filename) \notin oob)
            => req[r].status \in {200, 404}


\* the positions of a dialog turn at which the request holds its turn list
HoldsHistory == {"replay", "engine", "append_user", "append_assistant", "store_back"}

\* the request failed before the dialog engine was called
ResolutionFailed(r) ==
    /\ Done(r) /\ req[r].failed = "dialog"
    /\ \A k \in 1..Len(req[r].calls) : req[r].calls[k] # "chatbot"

ResolvedId ==
    \A r \in Reqs :
        /\ req[r].found = "empty" =>
               /\ req[r].asked = NoId /\ req[r].cid > UuidBase
               /\ \A q \in Reqs \ {r} : req[q].found = "empty" => req[q].cid # req[r].cid
        /\ req[r].found \in {"unknown", "known"} =>
               req[r].asked # NoId /\ req[r].cid = req[r].asked
        /\ req[r].pc \in HoldsHistory => req[r].history \in 1..Len(lists)
        /\ ResolutionFailed(r) => \E d \in deleted : d.cid = req[r].cid

\* create stores a new empty list under the id, lookup takes the list stored under it
ResolveStep(r) ==
    /\ (req[r].pc = "create" /\ req'[r].pc = "lookup") =>
           /\ conversation_store'[req[r].cid] \notin 1..Len(lists)
           /\ lists'[conversation_store'[req[r].cid]] = <<>>
    /\ (req[r].pc = "resolve" /\ req'[r].pc = "lookup" /\ req'[r].found = "empty") =>
           /\ conversation_store[req'[r].cid] = NoObj
           /\ conversation_store'[req'[r].cid] \notin 1..Len(lists)
           /\ lists'[conversation_store'[req'[r].cid]] = <<>>
    /\ (req[r].pc = "resolve" /\ req'[r].found = "known") =>
           req'[r].pc = "lookup" /\ UNCHANGED <<conversation_store, lists>>
    /\ (req[r].pc = "lookup" /\ req'[r].pc = "replay") =>
           /\ req'[r].history = conversation_store[req[r].cid]
           /\ UNCHANGED <<conversation_store, lists>>

EndsWithTurn(r, content) ==
    LET h == lists[req[r].history]
        n == Len(h)
    IN /\ n >= 2
       /\ h[n - 1].role = "user" /\ h[n - 1].content = req[r].msg
       /\ h[n - 1].rid = req[r].rid
       /\ h[n].role = "assistant" /\ h[n].content = content
       /\ h[n].rid = req[r].rid

AllEngines == {"chatbot", "asr", "narrator"}

\* models_loaded is never cleared, is set only with the three engines registered,
\* and a failed load stays failed
ReadinessStep ==
    /\ models_loaded => models_loaded'
    /\ (~models_loaded /\ models_loaded') => models = AllEngines
    /\ loader = "failed" => loader' = "failed"

\* C16: models_loaded starts false, is set once, after the three engines are
\* registered, and is never cleared; whenever it is set the three engines are in
\* models; once the initialisation of an engine has failed it is false for ever
ReadinessWriteOnce ==
    /\ ~models_loaded
    /\ [](models_loaded => models = AllEngines)
    /\ [](loader = "failed" => ~models_loaded)
    /\ [][ReadinessStep]_vars

\* the flag is set with the three engines registered, and a request has been served
ReadinessWriteOnceWitness ==
    /\ models_loaded /\ models = AllEngines /\ loader = "done"
    /\ \E r \in Reqs : Done(r) /\ req[r].ep \in GatedEndpoints /\ req[r].status = 200


\* C17: in every state, for every artifact name whose file nothing but the program
\* removed, the name is a key of audio_file_store exactly when its file exists
EntryIffFile ==
    \A n \in ArtifactNames :
        WavPath(n) \notin oob => (InStore(n) <=> WavPath(n) \in files)


\* C18: the Conversation handed to the dialog engine holds the turns of the stored
\* list, all of them in their order and with their roles, followed by the text of
\* the request as the latest user message
ContextIsHistoryThenText ==
    \A r \in Reqs :
        req[r].pc = "engine" =>
            Messages(req[r].convo) =
                Messages(lists[req[r].history])
                    \o <<[role |-> "user", content |-> req[r].msg]>>


\* C19: with no request in flight and no delete so far, the list stored under every
\* conversation id holds two turns for each dialog turn that completed under that id,
\* however the requests interleaved
NoTurnLost ==
    ((\A r \in Reqs : req[r].pc \in {"idle", "done"}) /\ deleted = {}) =>
        \A c \in SessionIds :
            /\ Len(log[c]) > 0 => conversation_store[c] # NoObj
            /\ conversation_store[c] # NoObj =>
                   Len(lists[conversation_store[c]]) = 2 * Len(log[c])


\* C20: a conversation id that delete_conversation removed never refers again to
\* the list, with its turns, that it referred to when it was deleted
DeletedStaysDeleted ==
    \A d \in deleted : conversation_store[d.cid] # d.obj

====
